---- MODULE Spec2Model ----
(***************************************************************************)
(* Penumbra analytics service: the data collector (data_collector.py), the *)
(* Discord notifier (discord_notifier.py), the configuration (config.py)   *)
(* and the scheduling loop (main.py) as one state machine.                 *)
(*                                                                         *)
(* Conventions                                                             *)
(*  - a Python dict is a TLA+ record; d.get(k, default) is Get(d,k,default)*)
(*  - None where a dict or a row is expected is the empty tuple; None or   *)
(*    SQL NULL where a number is expected is NULL (-1; every number the    *)
(*    sources deliver is >= 0); an environment variable that is not set is *)
(*    the string Unset                                                     *)
(*  - USD amounts are fixed point, in tenths of a dollar (4142.8 is 41428);*)
(*    UM amounts are whole UM; the database inputs are chosen so that the  *)
(*    divisions of the code are exact                                      *)
(*  - the clock is in seconds since the service object was constructed     *)
(*  - a call that can raise yields a record with a field exc (TRUE when    *)
(*    the exception leaves the call)                                       *)
(***************************************************************************)
EXTENDS Integers, Sequences, FiniteSets, TLC

\* ------------------------------------------------------------------------
\* Bounds of the model
\* ------------------------------------------------------------------------
\* iterations of the scheduling loop that are explored
MaxTicks == 3
\* UPDATE_INTERVAL_SECONDS values explored
UpdateIntervals == {1800}
\* DISCORD_INTERVAL_HOURS values explored
IntervalHours == {1, 3, 5}
\* how long a blocking database fetch or a webhook POST can take (seconds)
CallDurations == {0, 900}

\* ------------------------------------------------------------------------
\* Python values
\* ------------------------------------------------------------------------
None == <<>>
NULL == -1
Unset == "<unset>"

\* bool(x) of a number or NULL
Truthy(x) == x # NULL /\ x # 0
\* bool(s) of an optional string
StrTruthy(s) == s # Unset /\ s # ""
\* dict.get(k, default)
Get(d, k, default) == IF k \in DOMAIN d THEN d[k] ELSE default
\* min(a, b)
Min(a, b) == IF a <= b THEN a ELSE b

\* ------------------------------------------------------------------------
\* Number formatting and parsing
\* ------------------------------------------------------------------------
DigitChars == <<"0", "1", "2", "3", "4", "5", "6", "7", "8", "9">>
Digit(n) == DigitChars[n + 1]

\* three digits, zero padded (a group after a thousands separator)
Group3(n) == Digit(n \div 100) \o Digit((n \div 10) % 10) \o Digit(n % 10)

RECURSIVE Plain(_)
\* str(n) for n >= 0
Plain(n) == IF n < 10 THEN Digit(n) ELSE Plain(n \div 10) \o Digit(n % 10)

RECURSIVE Commas(_)
\* f"{n:,}" for n >= 0
Commas(n) == IF n < 1000 THEN Plain(n) ELSE Commas(n \div 1000) \o "," \o Group3(n % 1000)

\* volume_str of data_collector.py:350, for a volume given in tenths
VolumeStr(tenths) ==
    IF tenths # 0
    THEN Commas(tenths \div 10) \o "." \o Digit(tenths % 10) \o " USDC"
    ELSE "0 USDC"

RECURSIVE ParseDigits(_, _)
ParseDigits(s, acc) ==
    IF s = <<>> THEN acc
    ELSE ParseDigits(Tail(s), acc * 10 + (CHOOSE d \in 0..9 : DigitChars[d + 1] = Head(s)))

IsDigits(s) == s # <<>> /\ \A i \in 1..Len(s) : \E d \in 1..10 : DigitChars[d] = s[i]

\* int(s) of a string given as its characters: NULL stands for ValueError
ParseInt(s) == IF IsDigits(s) THEN ParseDigits(s, 0) ELSE NULL

\* ------------------------------------------------------------------------
\* Unit conversions
\* ------------------------------------------------------------------------
\* micro-units per unit (data_collector.py:187, 338, 339)
MICRO == 1000000
\* divisor of the per-pair volume (data_collector.py:349)
PAIR_VOLUME_SCALE == 10240000

\* float(v) / scale, in tenths
Tenths(v, scale) == (v * 10) \div scale

\* ------------------------------------------------------------------------
\* data_collector.py: pair names
\* ------------------------------------------------------------------------
known_assets ==
    ("29ea9c2f" :> "UM") @@ ("76b3e4b1" :> "USDC") @@ ("414e723f" :> "allBTC") @@
    ("000000" :> "OSMO") @@ ("c9c1e3" :> "CDT") @@ ("a1b2c3" :> "TIA") @@
    ("d4e5f6" :> "ATOM")

get_pair_display_name(asset_start_hex, asset_end_hex) ==
    LET start_symbol == Get(known_assets, asset_start_hex, asset_start_hex \o "...")
        end_symbol == Get(known_assets, asset_end_hex, asset_end_hex \o "...")
    IN start_symbol \o "/" \o end_symbol

\* hex[:8] if hex else "Unknown"; a hex string is given in words of 8 characters
Prefix8(hex) == IF hex # <<>> THEN Head(hex) ELSE "Unknown"

\* ------------------------------------------------------------------------
\* data_collector.py: the static fallback dataset
\* ------------------------------------------------------------------------
RECURSIVE SumVolumeUsd(_)
SumVolumeUsd(pairs) ==
    IF pairs = <<>> THEN 0 ELSE Head(pairs).volume_usd + SumVolumeUsd(Tail(pairs))

\* the fallback dataset with the volume taken as the TVL (no 25x estimate)
get_fallback_trading_data_without_estimate ==
    LET top_pairs == <<
            [name |-> "UM/USDC", volume |-> "4,142.8 USDC", volume_usd |-> 41428],
            [name |-> "T414E72/UM", volume |-> "1,040.0 USDC", volume_usd |-> 10400],
            [name |-> "UM/T414E72", volume |-> "1,013.4 USDC", volume_usd |-> 10134],
            [name |-> "ATOM/UM", volume |-> "38.4 USDC", volume_usd |-> 384],
            [name |-> "ATOM/USDC", volume |-> "35.4 USDC", volume_usd |-> 354] >>
        total_volume == SumVolumeUsd(top_pairs)
        dex_tvl == total_volume
    IN [active_pairs_count |-> 5,
        top_pairs |-> top_pairs,
        total_volume_24h |-> total_volume,
        dex_tvl |-> dex_tvl,
        lqt_total_participants |-> 1024,
        lqt_active_24h |-> 25,
        lqt_volume_24h |-> (total_volume * 8) \div 10,
        active_addresses_daily |-> 80,
        trading_pairs_count |-> 5,
        unique_asset_types |-> 10]

\* lines 397-423
get_fallback_trading_data ==
    LET top_pairs == <<
            [name |-> "UM/USDC", volume |-> "4,142.8 USDC", volume_usd |-> 41428],
            [name |-> "T414E72/UM", volume |-> "1,040.0 USDC", volume_usd |-> 10400],
            [name |-> "UM/T414E72", volume |-> "1,013.4 USDC", volume_usd |-> 10134],
            [name |-> "ATOM/UM", volume |-> "38.4 USDC", volume_usd |-> 384],
            [name |-> "ATOM/USDC", volume |-> "35.4 USDC", volume_usd |-> 354] >>
        total_volume == SumVolumeUsd(top_pairs)
        dex_tvl == total_volume * 25
    IN [active_pairs_count |-> 5,
        top_pairs |-> top_pairs,
        total_volume_24h |-> total_volume,
        dex_tvl |-> dex_tvl,
        lqt_total_participants |-> 1024,
        lqt_active_24h |-> 25,
        lqt_volume_24h |-> (total_volume * 8) \div 10,
        active_addresses_daily |-> 80,
        trading_pairs_count |-> 5,
        unique_asset_types |-> 10]

\* ------------------------------------------------------------------------
\* Exceptions
\* ------------------------------------------------------------------------
\* the exception classes the calls of the service can raise; all of them
\* derive from Exception.  NoExc is a call that returned normally
NoExc == "none"
ExceptionClasses ==
    {"ClientError", "TimeoutError", "JSONDecodeError", "KeyError", "ValueError",
     "TypeError", "OSError", "OperationalError", "DatabaseError"}

\* ------------------------------------------------------------------------
\* Timeouts of the outbound calls
\* ------------------------------------------------------------------------
\* the sources a cycle calls
Sources == {"penumbra_node", "indexer", "discord"}

\* data_collector.py:65: ClientTimeout(total=10) of the session of the
\* status request (seconds)
STATUS_TIMEOUT == 10
\* data_collector.py:255-267, 271-331: psycopg2.connect() is called without
\* connect_timeout and the queries run without statement_timeout: no timeout
DATABASE_TIMEOUT == NULL
\* discord_notifier.py:38: aiohttp.ClientSession() without a timeout argument
\* has the default of the library, ClientTimeout(total=300)
POST_TIMEOUT == 300

\* a call to source comes back: the source responds, or the timeout of the
\* call expires; unresponsive is the source if it never responds, else
\* "none"
CallReturns(source, timeout, unresponsive) ==
    source # unresponsive \/ timeout # NULL

\* ------------------------------------------------------------------------
\* The analytics database as the collector sees it
\* ------------------------------------------------------------------------
\* what the six queries of get_indexer_trading_data return: the rows of each
\* result set (fetchone() is the first row, or None when there is none)
DbLive ==
    [epoch_rows |-> << [epoch |-> 42] >>,
     lqt_rows |-> << [participant_count |-> 55] >>,
     validator_rows |-> << [active_validators |-> 104] >>,
     staking_rows |-> << [total_voting_power |-> 104000000] >>,
     aggregate_rows |-> << [direct_volume |-> 62700000, liquidity |-> 150000000,
                            trades |-> 9, active_pairs |-> 2] >>,
     pairs_data |-> <<
        [asset_start_hex |-> <<"29ea9c2f", "3371f6a4">>,
         asset_end_hex |-> <<"76b3e4b1", "0681358c">>,
         total_volume |-> 15360000, liquidity |-> 100000000, trades_over_window |-> 7],
        [asset_start_hex |-> <<"414e723f", "3bc61d95">>,
         asset_end_hex |-> <<"29ea9c2f", "3371f6a4">>,
         total_volume |-> 1024000, liquidity |-> 50000000, trades_over_window |-> 2] >>]

\* freshly created, empty tables: no epoch row, no aggregate row, no pairs,
\* COUNT(*) = 0 and SUM(voting_power) = NULL
DbEmpty ==
    [epoch_rows |-> <<>>,
     lqt_rows |-> << [participant_count |-> 0] >>,
     validator_rows |-> << [active_validators |-> 0] >>,
     staking_rows |-> << [total_voting_power |-> NULL] >>,
     aggregate_rows |-> <<>>,
     pairs_data |-> <<>>]

\* NULL columns in the aggregate row and in a pair row, an unmapped asset
DbNulls ==
    [epoch_rows |-> << [epoch |-> 42] >>,
     lqt_rows |-> << [participant_count |-> 3] >>,
     validator_rows |-> << [active_validators |-> 104] >>,
     staking_rows |-> << [total_voting_power |-> 104000000] >>,
     aggregate_rows |-> << [direct_volume |-> NULL, liquidity |-> 150000000,
                            trades |-> 0, active_pairs |-> NULL] >>,
     pairs_data |-> <<
        [asset_start_hex |-> <<>>,
         asset_end_hex |-> <<"deadbeef", "00000000">>,
         total_volume |-> NULL, liquidity |-> 0, trades_over_window |-> 0] >>]

\* the aggregate row lacks the column liquidity (a schema drift)
DbMissingColumn ==
    [epoch_rows |-> << [epoch |-> 42] >>,
     lqt_rows |-> << [participant_count |-> 55] >>,
     validator_rows |-> << [active_validators |-> 104] >>,
     staking_rows |-> << [total_voting_power |-> 104000000] >>,
     aggregate_rows |-> << [direct_volume |-> 62700000, trades |-> 9,
                            active_pairs |-> 2] >>,
     pairs_data |-> DbLive.pairs_data]

DbContents == {DbLive, DbEmpty, DbNulls, DbMissingColumn}

AllModes == {"verify-full", "verify-ca", "require", "default"}

\* the sslmodes the database server accepts from this client ("default" is
\* a connection without certificate arguments)
AcceptScenarios ==
    { AllModes,
      {"verify-ca", "require", "default"},
      {"require", "default"},
      {} }

\* what happens to the temporary certificate file before the connection
CertIo == {"ok", "create_fails", "write_fails", "readback_fails"}

\* number of cursor.execute() calls (data_collector.py:271-331)
NumQueries == 6

\* one fetch of the analytics database: failing_query = k > 0 makes the k-th
\* cursor.execute() raise.  A fetch has one peculiarity at most: a
\* certificate file fault, a failing query or a server that refuses a mode
\* comes with the contents DbLive, the first two with a server that accepts
\* every mode
IndexerIo ==
    { io \in [cert_io : CertIo, accepts : AcceptScenarios,
              failing_query : 0..NumQueries, contents : DbContents] :
        /\ io.cert_io # "ok" =>
              io.accepts = AllModes /\ io.failing_query = 0 /\ io.contents = DbLive
        /\ io.failing_query # 0 => io.accepts = AllModes /\ io.contents = DbLive
        /\ io.accepts # AllModes => io.contents = DbLive }

\* ------------------------------------------------------------------------
\* data_collector.py: get_indexer_trading_data
\* ------------------------------------------------------------------------
\* a name tempfile.NamedTemporaryFile has not used yet
FreshName(files) == CHOOSE n \in 1..(Cardinality(files) + 1) : n \notin files

\* the modes are tried from the weakest to the strictest
connect_with_cert_weakest_first(accepts) ==
    IF "require" \in accepts
    THEN [modes |-> <<"require">>, ok |-> TRUE]
    ELSE IF "verify-ca" \in accepts
         THEN [modes |-> <<"require", "verify-ca">>, ok |-> TRUE]
         ELSE [modes |-> <<"require", "verify-ca", "verify-full">>,
               ok |-> "verify-full" \in accepts]

\* lines 253-265: the nested try blocks of the connection
connect_with_cert(accepts) ==
    IF "verify-full" \in accepts
    THEN [modes |-> <<"verify-full">>, ok |-> TRUE]
    ELSE IF "verify-ca" \in accepts
         THEN [modes |-> <<"verify-full", "verify-ca">>, ok |-> TRUE]
         ELSE [modes |-> <<"verify-full", "verify-ca", "require">>,
               ok |-> "require" \in accepts]

\* line 267
connect_default(accepts) == [modes |-> <<"default">>, ok |-> "default" \in accepts]

\* every row has the columns the code subscripts (a KeyError otherwise)
RowsHaveColumns(c) ==
    /\ \A i \in 1..Len(c.epoch_rows) : "epoch" \in DOMAIN c.epoch_rows[i]
    /\ \A i \in 1..Len(c.lqt_rows) : "participant_count" \in DOMAIN c.lqt_rows[i]
    /\ \A i \in 1..Len(c.validator_rows) : "active_validators" \in DOMAIN c.validator_rows[i]
    /\ \A i \in 1..Len(c.staking_rows) : "total_voting_power" \in DOMAIN c.staking_rows[i]
    /\ \A i \in 1..Len(c.aggregate_rows) :
          {"direct_volume", "liquidity", "active_pairs"} \subseteq DOMAIN c.aggregate_rows[i]
    /\ \A i \in 1..Len(c.pairs_data) :
          {"total_volume", "asset_start_hex", "asset_end_hex"} \subseteq DOMAIN c.pairs_data[i]

\* lines 348-361: one entry of top_pairs
FormatPair(pair) ==
    LET volume_value == IF Truthy(pair.total_volume)
                        THEN Tenths(pair.total_volume, PAIR_VOLUME_SCALE) ELSE 0
    IN [name |-> get_pair_display_name(Prefix8(pair.asset_start_hex),
                                       Prefix8(pair.asset_end_hex)),
        volume |-> VolumeStr(volume_value),
        volume_usd |-> volume_value]

\* lines 278-384: the dict returned when every query succeeded
IndexerResult(c) ==
    LET current_epoch == IF c.epoch_rows # <<>> THEN Head(c.epoch_rows).epoch ELSE 0
        real_lqt_participants ==
            IF c.lqt_rows # <<>> THEN Head(c.lqt_rows).participant_count ELSE 0
        real_active_validators ==
            IF c.validator_rows # <<>> THEN Head(c.validator_rows).active_validators ELSE 0
        total_voting_power ==
            IF c.staking_rows # <<>> THEN Head(c.staking_rows).total_voting_power ELSE 0
        agg == Head(c.aggregate_rows)
        total_volume ==
            IF c.aggregate_rows # <<>> /\ Truthy(agg.direct_volume)
            THEN Tenths(agg.direct_volume, MICRO) ELSE 0
        total_liquidity ==
            IF c.aggregate_rows # <<>> /\ Truthy(agg.liquidity)
            THEN Tenths(agg.liquidity, MICRO) ELSE 0
        top_pairs == [i \in 1..Len(c.pairs_data) |-> FormatPair(c.pairs_data[i])]
        dex_tvl == total_liquidity
    IN [active_pairs_count |-> Len(top_pairs),
        top_pairs |-> top_pairs,
        total_volume_24h |-> total_volume,
        dex_tvl |-> dex_tvl,
        lqt_total_participants |-> real_lqt_participants,
        lqt_active_24h |-> Min(real_lqt_participants, Len(top_pairs) * 5),
        lqt_volume_24h |-> (total_volume * 8) \div 10,
        active_addresses_daily |-> Min(100, Len(top_pairs) * 20),
        trading_pairs_count |-> Len(top_pairs),
        unique_asset_types |-> Min(20, Len(top_pairs) * 2),
        current_epoch |-> current_epoch,
        active_validators |-> real_active_validators,
        total_voting_power |-> total_voting_power]

\* the temporary file is never unlinked
finally_cleanup_missing(temp_cert_file, files) == files

\* lines 389-395: the finally block; files is the set of temporary files
\* that exist, temp_cert_file the name created by this call (NULL if none)
finally_cleanup(temp_cert_file, files) ==
    IF temp_cert_file # NULL /\ temp_cert_file \in files
    THEN files \ {temp_cert_file}
    ELSE files

\* line 386: except Exception
indexer_except(e) == e \in ExceptionClasses

\* lines 225-395.  ret is the returned dict, exc the exception that leaves
\* the call (NoExc if none), files the temporary files after it, created the
\* name of the certificate file it made (NULL if none), modes the sslmodes it
\* tried in order, path the exit path taken
get_indexer_trading_data(indexer_ca_cert, io, files) ==
    LET use_cert == StrTruthy(indexer_ca_cert)
        created == use_cert /\ io.cert_io # "create_fails"
        temp_cert_file == IF created THEN FreshName(files) ELSE NULL
        files_in_try == IF created THEN files \cup {temp_cert_file} ELSE files
        cert_ok == ~use_cert \/ io.cert_io = "ok"
        conn == IF ~cert_ok THEN [modes |-> <<>>, ok |-> FALSE]
                ELSE IF use_cert THEN connect_with_cert(io.accepts)
                ELSE connect_default(io.accepts)
        queried == conn.ok /\ io.failing_query = 0
        e == IF ~cert_ok THEN "OSError"
             ELSE IF ~conn.ok THEN "OperationalError"
             ELSE IF ~queried THEN "DatabaseError"
             ELSE IF ~RowsHaveColumns(io.contents) THEN "KeyError"
             ELSE NoExc
        path == IF ~cert_ok THEN "cert_failed"
                ELSE IF ~conn.ok THEN "connect_failed"
                ELSE IF ~queried THEN "query_failed"
                ELSE IF e # NoExc THEN "row_failed"
                ELSE "success"
    IN [ret |-> IF e = NoExc THEN IndexerResult(io.contents)
                ELSE IF indexer_except(e) THEN get_fallback_trading_data
                ELSE None,
        exc |-> IF e = NoExc \/ indexer_except(e) THEN NoExc ELSE e,
        files |-> finally_cleanup(temp_cert_file, files_in_try),
        created |-> temp_cert_file,
        modes |-> conn.modes,
        path |-> path]

\* lines 218-223
get_trading_data(indexer_endpoint, indexer_ca_cert, io, files) ==
    IF StrTruthy(indexer_endpoint)
    THEN get_indexer_trading_data(indexer_ca_cert, io, files)
    ELSE [ret |-> get_fallback_trading_data, exc |-> NoExc, files |-> files,
          created |-> NULL, modes |-> <<>>, path |-> "not_configured"]

\* the exit paths of get_indexer_trading_data that return the fallback
\* dataset from its except block
FailedPaths == {"cert_failed", "connect_failed", "query_failed", "row_failed"}

\* ------------------------------------------------------------------------
\* data_collector.py: get_network_data
\* ------------------------------------------------------------------------
\* what GET {rpc}/status can produce: a JSON document (the height as the
\* characters of its string), or a failure of the request
StatusDocuments ==
    { [result |-> [sync_info |-> [latest_block_height |-> <<"1", "0", "0", "0">>,
                                  latest_block_time |-> "2025-01-01T00:00:00Z"]]],
      [result |-> [sync_info |-> [latest_block_height |-> <<"0", "7">>,
                                  latest_block_time |-> "2025-01-01T00:00:06Z"]]],
      [result |-> [sync_info |-> [latest_block_height |-> <<"1", "0", "0", "0">>]]],
      [result |-> [sync_info |-> [latest_block_height |-> <<"1", "e", "3">>,
                                  latest_block_time |-> "2025-01-01T00:00:00Z"]]],
      [error |-> "Internal error"] }

StatusResponses ==
    [kind : {"document"}, body : StatusDocuments]
    \cup { [kind |-> "transport_error"], [kind |-> "timeout"], [kind |-> "malformed_json"] }

\* lines 175-180: the exception the body of the try raises, if any
StatusError(response) ==
    IF response.kind = "transport_error" THEN "ClientError"
    ELSE IF response.kind = "timeout" THEN "TimeoutError"
    ELSE IF response.kind = "malformed_json" THEN "JSONDecodeError"
    ELSE LET status == response.body
         IN IF "result" \notin DOMAIN status THEN "KeyError"
            ELSE IF "sync_info" \notin DOMAIN status.result THEN "KeyError"
            ELSE LET sync_info == status.result.sync_info
                 IN IF "latest_block_height" \notin DOMAIN sync_info THEN "KeyError"
                    ELSE IF ParseInt(sync_info.latest_block_height) = NULL THEN "ValueError"
                    ELSE IF "latest_block_time" \notin DOMAIN sync_info THEN "KeyError"
                    ELSE NoExc

\* a handler that catches the client errors of the HTTP library only
network_except_client_errors(e) == e \in {"ClientError"}

\* line 206: except Exception
network_except(e) == e \in ExceptionClasses

\* lines 171-216
get_network_data(response, current_epoch, trading_data) ==
    LET e == StatusError(response)
        sync_info == response.body.result.sync_info
        has_trading == DOMAIN trading_data # {}
        active_validators ==
            IF has_trading THEN Get(trading_data, "active_validators", 0) ELSE 0
        total_voting_power ==
            IF has_trading THEN Get(trading_data, "total_voting_power", 0) ELSE 0
        total_staked_um ==
            IF Truthy(total_voting_power) THEN total_voting_power \div MICRO ELSE 0
        total_staked_usd == 0
    IN IF e = NoExc
       THEN [exc |-> NoExc,
             ret |-> [block_height |-> ParseInt(sync_info.latest_block_height),
                      current_epoch |-> current_epoch,
                      block_time |-> sync_info.latest_block_time,
                      active_validators |-> active_validators,
                      total_staked_um |-> total_staked_um,
                      total_staked_usd |-> total_staked_usd,
                      total_voting_power |-> total_voting_power,
                      staking_tvl |-> total_staked_usd]]
       ELSE IF network_except(e)
       THEN [exc |-> NoExc,
             ret |-> [block_height |-> 0,
                      current_epoch |-> 0,
                      active_validators |-> 0,
                      total_staked_um |-> 0,
                      total_staked_usd |-> 0,
                      total_voting_power |-> 0,
                      staking_tvl |-> 0]]
       ELSE [exc |-> e, ret |-> None]

\* ------------------------------------------------------------------------
\* data_collector.py: get_transactions_data
\* ------------------------------------------------------------------------
\* round(n / d) as Python rounds: to the nearest, a tie to the even neighbour
RoundHalfEven(n, d) ==
    LET q == n \div d
        r == n % d
    IN IF 2 * r < d THEN q
       ELSE IF 2 * r > d THEN q + 1
       ELSE IF q % 2 = 0 THEN q ELSE q + 1

\* the rates are cut off after their last decimal place instead of rounded
get_transactions_data_truncated ==
    LET total_24h == 253
    IN [total_24h |-> total_24h,
        per_second |-> (total_24h * 1000) \div (24 * 60 * 60),
        per_minute |-> (total_24h * 60 * 10) \div (24 * 60 * 60),
        rate_per_hour |-> (total_24h * 10) \div 24]

\* lines 425-444; per_second is in thousandths, per_minute and rate_per_hour
\* are in tenths
get_transactions_data ==
    LET total_24h == 253
    IN [total_24h |-> total_24h,
        per_second |-> RoundHalfEven(total_24h * 1000, 24 * 60 * 60),
        per_minute |-> RoundHalfEven(total_24h * 60 * 10, 24 * 60 * 60),
        rate_per_hour |-> RoundHalfEven(total_24h * 10, 24)]

\* ------------------------------------------------------------------------
\* data_collector.py: collect_all_data, the Snapshot
\* ------------------------------------------------------------------------
\* config.py:13, the default PENUMBRA_RPC_ENDPOINT
rpc_endpoint == "https://rpc-penumbra.radiantcommons.com"

\* the staked UM are added to the total as if they were dollars
total_usd_with_staked_um(trading_data, network_data) ==
    Get(trading_data, "dex_tvl", 0) + Get(network_data, "staking_tvl", 0)
        + Get(network_data, "total_staked_um", 0) * 10

\* line 165: the value of tvl.total_usd
total_usd(trading_data, network_data) ==
    Get(trading_data, "dex_tvl", 0) + Get(network_data, "staking_tvl", 0)

\* lines 76-167; t is datetime.now()
BuildSnapshot(indexer_endpoint, trading_data, network_data, transactions_data, t) ==
    [addresses |->
        [active_daily |-> Get(trading_data, "active_addresses_daily", 0),
         active_weekly |-> Get(trading_data, "active_addresses_weekly", 0),
         exchange_addresses_daily |-> Get(trading_data, "exchange_addresses_daily", 0),
         exchange_addresses_weekly |-> Get(trading_data, "exchange_addresses_weekly", 0)],
     assets |->
        [total_value_usd |-> Get(trading_data, "total_asset_value", 0),
         trading_pairs_count |-> Get(trading_data, "trading_pairs_count", 0),
         unique_types_count |-> Get(trading_data, "unique_asset_types", 0)],
     bot_health |->
        [errors_last_24h |-> 0, last_update |-> t, status |-> "healthy",
         uptime_hours |-> 24],
     data_sources |->
        [google_analytics |-> [configured |-> FALSE, healthy |-> FALSE, last_check |-> t],
         indexer |-> [configured |-> StrTruthy(indexer_endpoint),
                      healthy |-> StrTruthy(indexer_endpoint),
                      last_check |-> t],
         penumbra_node |-> [endpoint |-> rpc_endpoint, healthy |-> TRUE, last_check |-> t]],
     lqt |->
        [active_participants_24h |-> Get(trading_data, "lqt_active_24h", 0),
         rewards_distributed_usd |-> 0,
         total_participants |-> Get(trading_data, "lqt_total_participants", 1024),
         total_volume_usd |-> Get(trading_data, "lqt_total_volume", 0),
         volume_24h_usd |-> Get(trading_data, "lqt_volume_24h", 0)],
     metadata |->
        [api_version |-> "v1.0", data_freshness_seconds |-> 30,
         source |-> "penumbra-analytics-service", timestamp |-> t],
     network |->
        [avg_block_time_seconds |-> 6,
         block_height |-> Get(network_data, "block_height", 0),
         current_epoch |-> Get(network_data, "current_epoch", 0),
         network_uptime_percentage |-> 999],
     prax_wallet |->
        [active_users_daily |-> 33, active_users_monthly |-> 636,
         downloads_daily |-> 11, downloads_total |-> 1580, downloads_weekly |-> 53],
     privacy |->
        [mvas_count_24h |-> Get(trading_data, "mvas_count_24h", 0),
         mvas_percentage |-> 155,
         mvas_volume_24h_usd |-> Get(trading_data, "mvas_volume_24h", 0),
         privacy_adoption_rate |-> 0],
     staking |->
        [active_validators |-> Get(network_data, "active_validators", 0),
         staking_percentage |-> 0,
         total_staked_um |-> Get(network_data, "total_staked_um", 0),
         total_staked_usd |-> Get(network_data, "total_staked_usd", 0),
         total_voting_power |-> Get(network_data, "total_voting_power", 0)],
     trading |->
        [active_pairs_count |-> Get(trading_data, "active_pairs_count", 5),
         top_pairs |-> Get(trading_data, "top_pairs", <<>>),
         total_volume_24h_usd |-> Get(trading_data, "total_volume_24h", 0)],
     transactions |->
        [per_minute |-> Get(transactions_data, "per_minute", 0),
         per_second |-> Get(transactions_data, "per_second", 0),
         rate_per_hour |-> Get(transactions_data, "rate_per_hour", 0),
         total_24h |-> Get(transactions_data, "total_24h", 253)],
     tvl |->
        [dex_usd |-> Get(trading_data, "dex_tvl", 0),
         source |-> "estimated",
         staking_usd |-> Get(network_data, "staking_tvl", 0),
         total_usd |-> total_usd(trading_data, network_data)]]

\* the Snapshot without its freshness timestamps (lines 90, 98, 103, 108, 122)
StripTimestamps(snapshot) ==
    [snapshot EXCEPT !.bot_health.last_update = 0,
                     !.metadata.timestamp = 0,
                     !.data_sources.google_analytics.last_check = 0,
                     !.data_sources.indexer.last_check = 0,
                     !.data_sources.penumbra_node.last_check = 0]

\* ------------------------------------------------------------------------
\* metrics_server.py: update_metrics (the gauges the model keeps)
\* ------------------------------------------------------------------------
\* lines 67-117, of which the model keeps the gauges of the transaction
\* totals and of the health of the data sources
update_metrics(data) ==
    [transactions_24h |-> data.transactions.total_24h,
     data_source_healthy |->
        [source \in DOMAIN data.data_sources |->
            IF data.data_sources[source].healthy THEN 1 ELSE 0]]

\* ------------------------------------------------------------------------
\* discord_notifier.py
\* ------------------------------------------------------------------------
\* what the webhook POST can produce
PostOutcomes ==
    { [kind |-> "response", status |-> 204],
      [kind |-> "response", status |-> 429],
      [kind |-> "transport_error"],
      [kind |-> "timeout"] }

\* lines 17-47: a response of any status returns normally (204 is logged as
\* success, another status as an error); an exception is logged and raised
\* again
send_message(message, outcome) ==
    [exc |-> IF outcome.kind = "transport_error" THEN "ClientError"
             ELSE IF outcome.kind = "timeout" THEN "TimeoutError"
             ELSE NoExc,
     delivered |-> outcome.kind = "response" /\ outcome.status = 204]

\* ------------------------------------------------------------------------
\* main.py: the Discord message
\* ------------------------------------------------------------------------
\* seconds per hour (main.py:66)
SECONDS_PER_HOUR == 3600
\* hours before construction at which last_discord_message starts (main.py:37)
INITIAL_HOURS_AGO == 4

\* f"{x:,.0f}" of an amount in tenths
Usd0(tenths) == Commas(RoundHalfEven(tenths, 10))

\* lines 128-143: the lines joined by the newline
format_top_pairs(top_pairs) ==
    IF top_pairs = <<>>
    THEN << "  * No trading pairs available" >>
    ELSE [i \in 1..Min(3, Len(top_pairs)) |->
            LET name == Get(top_pairs[i], "name", "Unknown")
                pair_name == IF Len(name) > 20 THEN "Pair #" \o Plain(i) ELSE name
                volume == Get(top_pairs[i], "volume", "0 USDC")
            IN "  * **" \o pair_name \o "**: " \o volume]

\* a value formatted with a numeric format specification is None
FormatError(data) ==
    IF NULL \in {data.network.block_height, data.network.network_uptime_percentage,
                 data.tvl.dex_usd, data.staking.total_staked_um,
                 data.trading.total_volume_24h_usd, data.lqt.total_participants,
                 data.lqt.volume_24h_usd, data.privacy.mvas_percentage,
                 data.privacy.mvas_volume_24h_usd}
    THEN "TypeError" ELSE NoExc

\* lines 79-126: the values the message shows, as formatted; t is now
format_discord_message(data, discord_interval_hours, t) ==
    IF FormatError(data) # NoExc
    THEN [exc |-> FormatError(data), message |-> None]
    ELSE [exc |-> NoExc,
          message |->
            [current_epoch |-> data.network.current_epoch,
             block_height |-> Commas(data.network.block_height),
             total_tvl |-> Usd0(data.tvl.dex_usd),
             dex_tvl |-> Usd0(data.tvl.dex_usd),
             staking_tvl |-> Commas(data.staking.total_staked_um),
             active_pairs |-> data.trading.active_pairs_count,
             volume_24h |-> Usd0(data.trading.total_volume_24h_usd),
             top_pairs |-> format_top_pairs(data.trading.top_pairs),
             lqt_participants |-> Commas(data.lqt.total_participants),
             lqt_active |-> data.lqt.active_participants_24h,
             lqt_volume |-> Usd0(data.lqt.volume_24h_usd),
             transactions |-> data.transactions.total_24h,
             tx_rate |-> data.transactions.per_minute,
             private_volume |-> Usd0(data.privacy.mvas_volume_24h_usd),
             next_update |-> t + discord_interval_hours * SECONDS_PER_HOUR]]

\* ------------------------------------------------------------------------
\* main.py: PenumbraAnalyticsService
\* ------------------------------------------------------------------------
\* lines 62-66
should_send_discord_message(t, last, discord_interval_hours) ==
    t - last >= discord_interval_hours * SECONDS_PER_HOUR

\* send_discord_update without its try block
send_update_except_missing(e) == FALSE

\* line 76: except Exception
send_update_except(e) == e \in ExceptionClasses

\* lines 68-77.  t is the time at which the call starts, t_done the time at
\* which the POST has completed.  last is the new last_discord_message, exc
\* the exception that leaves the call, posted whether send_message was
\* called, message the message it was called with
send_discord_update(data, discord_interval_hours, last, outcome, t, t_done) ==
    LET fm == format_discord_message(data, discord_interval_hours, t)
        sm == send_message(fm.message, outcome)
        e == IF fm.exc # NoExc THEN fm.exc ELSE sm.exc
    IN [last |-> IF e = NoExc THEN t_done ELSE last,
        exc |-> IF e = NoExc \/ send_update_except(e) THEN NoExc ELSE e,
        posted |-> fm.exc = NoExc,
        message |-> fm.message,
        result |-> IF fm.exc # NoExc THEN "format_error"
                   ELSE IF sm.exc # NoExc THEN "transport_error"
                   ELSE IF sm.delivered THEN "delivered" ELSE "rejected"]

\* line 58: except Exception
collect_except(e) == e \in ExceptionClasses

\* line 167: except Exception
run_except(e) == e \in ExceptionClasses

\* ------------------------------------------------------------------------
\* State
\* ------------------------------------------------------------------------
VARIABLES
    \* Config / PenumbraDataCollector fields, fixed at construction
    indexer_endpoint,        \* PENUMBRA_INDEXER_ENDPOINT
    indexer_ca_cert,         \* PENUMBRA_INDEXER_CA_CERT
    update_interval,         \* UPDATE_INTERVAL_SECONDS
    discord_interval_hours,  \* DISCORD_INTERVAL_HOURS
    \* the service
    now,                     \* the clock, datetime.now()
    last_discord_message,    \* PenumbraAnalyticsService.last_discord_message
    pc,                      \* where run() is
    ticks,                   \* iterations of the loop started so far
    trading_data,            \* locals of collect_all_data
    network_data,
    data,                    \* the local data of run(): the Snapshot, or None
    metrics,                 \* the gauges of the MetricsServer
    tmpfiles,                \* the temporary files that exist
    \* observations of the current tick (history variables)
    inflight,                \* collect_all_data() calls started and not finished
    collect_result,          \* "none", "returned" or "raised"
    fetch,                   \* exit path, sslmodes and file of get_trading_data
                             \* and the sslmodes the server accepted, until
                             \* get_network_data is called
    trading_source,          \* "indexer" or "fallback": where trading_data is from
    node_response,           \* the response to GET /status, None before
    unresponsive,            \* the source of the next call, if it never responds
                             \* to that call, else "none"
    events,                  \* what the tick has done, in order
    tick_due,                \* send_discord_update was called in this tick
    tick_result,             \* how it ended: "none" if it was not called
    message_posted,          \* the message handed to send_message, or None
    \* observations across ticks
    ok_ticks,                \* ticks whose collection returned a Snapshot (up to 2)
    fetch_failed_before,     \* a live fetch has failed in this or an earlier tick
    \* a run against mocked sources
    mocked,                  \* the responses every call of the run gets, None
                             \* when the sources are free to answer differently
    prev_snapshot,           \* the Snapshot of the previous tick of such a run,
                             \* without its timestamps
    last_post,               \* start time of the last POST, NULL if none
    last_post_result         \* its result

\* the exception raised inside the try of get_network_data in this tick
NodeError == IF node_response = None THEN "unknown" ELSE StatusError(node_response)

\* the tick has done x
Did(x) == \E i \in 1..Len(events) : events[i] = x

\* what the source of the next call can be: one that responds, or (unless
\* the sources are mocked) one that never does
NextCall(source) == IF mocked = None THEN {"none", source} ELSE {"none"}

config == <<indexer_endpoint, indexer_ca_cert, update_interval, discord_interval_hours,
            mocked>>
tick_obs == <<collect_result, fetch, trading_source, node_response, unresponsive,
              events, tick_due, tick_result, message_posted>>
post_obs == <<last_post, last_post_result>>
vars == <<config, now, last_discord_message, pc, ticks, trading_data, network_data,
          data, metrics, tmpfiles, inflight, tick_obs, ok_ticks, post_obs,
          fetch_failed_before, prev_snapshot>>

\* config.py:15, 16, 26, 27 and main.py:27-39
InitService ==
    /\ indexer_endpoint \in {Unset, "", "postgresql://pindexer/penumbra"}
    /\ indexer_ca_cert \in {Unset, "-----BEGIN CERTIFICATE-----"}
    /\ update_interval \in UpdateIntervals
    /\ discord_interval_hours \in IntervalHours
    /\ now = 0
    /\ last_discord_message = 0 - INITIAL_HOURS_AGO * SECONDS_PER_HOUR
    /\ pc = "run"
    /\ ticks = 0
    /\ trading_data = None
    /\ network_data = None
    /\ data = None
    /\ metrics = None
    /\ tmpfiles = {}
    /\ inflight = 0
    /\ collect_result = "none"
    /\ fetch = None
    /\ trading_source = "none"
    /\ node_response = None
    /\ unresponsive = "none"
    /\ events = <<>>
    /\ tick_due = FALSE
    /\ tick_result = "none"
    /\ message_posted = None
    /\ ok_ticks = 0
    /\ last_post = NULL
    /\ last_post_result = "none"
    /\ fetch_failed_before = FALSE
    /\ prev_snapshot = None

\* the service against sources that answer each call as they please
Init ==
    /\ InitService
    /\ mocked = None

\* the service against mocked sources: the database and the node give the
\* same responses to every call of the run, at once, and the webhook
\* accepts every message; the notification interval is the default
MockInit ==
    /\ InitService
    /\ discord_interval_hours = 3
    /\ mocked \in [io : IndexerIo, response : StatusResponses]
    /\ StrTruthy(indexer_endpoint) \/ mocked.io = CHOOSE x \in IndexerIo : TRUE

\* ------------------------------------------------------------------------
\* Actions
\* ------------------------------------------------------------------------
\* an exception e leaves collect_all_data: collect_and_update_data (main.py:
\* 58-60) returns None if it catches it, else run() ends (main.py:167-170)
CollectRaises(e) ==
    /\ collect_result' = "raised"
    /\ inflight' = inflight - 1
    /\ data' = None
    /\ pc' = IF collect_except(e) THEN "notify"
             ELSE IF run_except(e) THEN "stopped" ELSE "crashed"
    /\ events' = Append(events, "collect_raised")

\* the loop starts the collection as a task of its own and goes on without
\* awaiting it
RunCollectDetached ==
    /\ pc = "run"
    /\ ticks < MaxTicks
    /\ ticks' = ticks + 1
    /\ inflight' = inflight + 1
    /\ pc' = "run"
    /\ now' = now + update_interval
    /\ events' = << "collect_started" >>
    /\ unresponsive' \in NextCall("indexer")
    /\ UNCHANGED <<prev_snapshot, fetch_failed_before, config, last_discord_message,
                   trading_data, network_data, data, metrics, tmpfiles,
                   collect_result, fetch, trading_source, node_response, tick_due,
                   tick_result, message_posted, ok_ticks, post_obs>>

\* main.py:153-155, 47 and data_collector.py:59-68: the loop starts a tick
\* and collect_all_data opens its session; the database may be one that
\* never responds
RunCollect ==
    /\ pc = "run"
    /\ ticks < MaxTicks
    /\ ticks' = ticks + 1
    /\ inflight' = inflight + 1
    /\ pc' = "trading"
    /\ events' = << "collect_started" >>
    /\ unresponsive' \in NextCall("indexer")
    /\ UNCHANGED <<prev_snapshot, fetch_failed_before, config, now,
                   last_discord_message, trading_data, network_data, data, metrics,
                   tmpfiles, collect_result, fetch, trading_source, node_response,
                   tick_due, tick_result, message_posted, ok_ticks, post_obs>>

\* once a live fetch has failed, the later ticks use the fallback dataset
\* without attempting the fetch
GetTradingDataDemoted ==
    /\ pc = "trading"
    /\ StrTruthy(indexer_endpoint) =>
          CallReturns("indexer", DATABASE_TIMEOUT, unresponsive)
    /\ \E io \in IndexerIo, d \in CallDurations :
          \E r \in {get_trading_data(IF fetch_failed_before THEN "" ELSE indexer_endpoint,
                                      indexer_ca_cert, io, tmpfiles)} :
             /\ StrTruthy(indexer_endpoint) \/ (d = 0 /\ io = CHOOSE x \in IndexerIo : TRUE)
             /\ mocked # None => io = mocked.io /\ d = 0
             /\ now' = now + d
             /\ tmpfiles' = r.files
             /\ fetch' = [path |-> r.path, modes |-> r.modes, created |-> r.created,
                          accepts |-> io.accepts]
             /\ trading_source' = IF r.path = "success" THEN "indexer" ELSE "fallback"
             /\ fetch_failed_before' = (fetch_failed_before \/ r.path \in FailedPaths)
             /\ IF r.exc = NoExc
                THEN /\ trading_data' = r.ret
                     /\ pc' = "network"
                     /\ events' = Append(events, "trading")
                     /\ UNCHANGED <<collect_result, inflight, data>>
                ELSE /\ trading_data' = None
                     /\ CollectRaises(r.exc)
    /\ unresponsive' \in NextCall("penumbra_node")
    /\ UNCHANGED <<prev_snapshot, config, last_discord_message, ticks, network_data,
                   metrics, node_response, tick_due, tick_result,
                   message_posted, ok_ticks, post_obs>>

\* data_collector.py:71: get_trading_data(); the database calls block for d,
\* and do not come back from a database that never responds
GetTradingData ==
    /\ pc = "trading"
    /\ StrTruthy(indexer_endpoint) =>
          CallReturns("indexer", DATABASE_TIMEOUT, unresponsive)
    /\ \E io \in IndexerIo, d \in CallDurations :
          \E r \in {get_trading_data(indexer_endpoint, indexer_ca_cert, io, tmpfiles)} :
             /\ StrTruthy(indexer_endpoint) \/ (d = 0 /\ io = CHOOSE x \in IndexerIo : TRUE)
             /\ mocked # None => io = mocked.io /\ d = 0
             /\ now' = now + d
             /\ tmpfiles' = r.files
             /\ fetch' = [path |-> r.path, modes |-> r.modes, created |-> r.created,
                          accepts |-> io.accepts]
             /\ trading_source' = IF r.path = "success" THEN "indexer" ELSE "fallback"
             /\ fetch_failed_before' = (fetch_failed_before \/ r.path \in FailedPaths)
             /\ IF r.exc = NoExc
                THEN /\ trading_data' = r.ret
                     /\ pc' = "network"
                     /\ events' = Append(events, "trading")
                     /\ UNCHANGED <<collect_result, inflight, data>>
                ELSE /\ trading_data' = None
                     /\ CollectRaises(r.exc)
    /\ unresponsive' \in NextCall("penumbra_node")
    /\ UNCHANGED <<prev_snapshot, config, last_discord_message, ticks, network_data,
                   metrics, node_response, tick_due, tick_result,
                   message_posted, ok_ticks, post_obs>>

\* data_collector.py:72: get_network_data(); the request to a node that
\* never responds ends with the timeout of the session
GetNetworkData ==
    /\ pc = "network"
    /\ CallReturns("penumbra_node", STATUS_TIMEOUT, unresponsive)
    /\ \E response \in StatusResponses :
          \E r \in {get_network_data(response, Get(trading_data, "current_epoch", 0),
                                     trading_data)} :
             /\ unresponsive = "penumbra_node" => response.kind = "timeout"
             /\ mocked # None => response = mocked.response
             /\ node_response' = response
             /\ fetch' = None
             /\ IF r.exc = NoExc
                THEN /\ network_data' = r.ret
                     /\ pc' = "build"
                     /\ events' = Append(events, "network")
                     /\ UNCHANGED <<collect_result, inflight, data>>
                ELSE /\ network_data' = None
                     /\ CollectRaises(r.exc)
    /\ unresponsive' \in NextCall("discord")
    /\ UNCHANGED <<prev_snapshot, fetch_failed_before, config, now,
                   last_discord_message, ticks, trading_data, metrics, tmpfiles,
                   trading_source, tick_due, tick_result,
                   message_posted, ok_ticks, post_obs>>

\* the collector counts the ticks since its first failed fetch and reports
\* the count as errors_last_24h
CollectReturnCountingErrors ==
    /\ pc = "build"
    /\ data' = [BuildSnapshot(indexer_endpoint, trading_data, network_data,
                              get_transactions_data, now)
                EXCEPT !.bot_health.errors_last_24h =
                           IF fetch_failed_before THEN ticks ELSE 0]
    /\ trading_data' = None
    /\ network_data' = None
    /\ collect_result' = "returned"
    /\ inflight' = inflight - 1
    /\ metrics' = update_metrics(data')
    /\ events' = events \o << "collected", "metrics" >>
    /\ ok_ticks' = Min(2, ok_ticks + 1)
    /\ pc' = "notify"
    /\ UNCHANGED <<prev_snapshot, fetch_failed_before, config, now,
                   last_discord_message, ticks, tmpfiles, fetch, trading_source,
                   node_response, unresponsive, tick_due, tick_result,
                   message_posted, post_obs>>

\* collect_and_update_data returns the Snapshot without updating the
\* metrics first
CollectReturnWithoutMetrics ==
    /\ pc = "build"
    /\ data' = BuildSnapshot(indexer_endpoint, trading_data, network_data,
                             get_transactions_data, now)
    /\ trading_data' = None
    /\ network_data' = None
    /\ collect_result' = "returned"
    /\ inflight' = inflight - 1
    /\ metrics' = metrics
    /\ events' = Append(events, "collected")
    /\ ok_ticks' = Min(2, ok_ticks + 1)
    /\ pc' = "notify"
    /\ UNCHANGED <<prev_snapshot, fetch_failed_before, config, now,
                   last_discord_message, ticks, tmpfiles, fetch, trading_source,
                   node_response, unresponsive, tick_due, tick_result,
                   message_posted, post_obs>>

\* data_collector.py:73-169 and main.py:47-56: the transaction figures, the
\* Snapshot, the return of collect_all_data (its locals are gone), then
\* update_metrics and the return of collect_and_update_data
CollectReturn ==
    /\ pc = "build"
    /\ data' = BuildSnapshot(indexer_endpoint, trading_data, network_data,
                             get_transactions_data, now)
    /\ trading_data' = None
    /\ network_data' = None
    /\ collect_result' = "returned"
    /\ inflight' = inflight - 1
    /\ metrics' = update_metrics(data')
    /\ events' = events \o << "collected", "metrics" >>
    /\ ok_ticks' = Min(2, ok_ticks + 1)
    /\ pc' = "notify"
    /\ UNCHANGED <<prev_snapshot, fetch_failed_before, config, now,
                   last_discord_message, ticks, tmpfiles, fetch, trading_source,
                   node_response, unresponsive, tick_due, tick_result,
                   message_posted, post_obs>>

\* the Snapshot is not read again once line 160 is passed: the model drops
\* it, and what was observed of its collection, when the tick goes to sleep
DropSnapshot ==
    /\ data' = None
    /\ collect_result' = "none"
    /\ trading_source' = "none"
    /\ node_response' = None
    /\ unresponsive' = "none"
    /\ prev_snapshot' = IF mocked # None /\ data # None
                        THEN StripTimestamps(data) ELSE prev_snapshot

\* main.py:157-160: no Snapshot, or it is not time for a message
NotifySkip ==
    /\ pc = "notify"
    /\ ~(data # None
         /\ should_send_discord_message(now, last_discord_message, discord_interval_hours))
    /\ pc' = "sleep"
    /\ events' = Append(events, "not_due")
    /\ DropSnapshot
    /\ UNCHANGED <<fetch_failed_before, config, now, last_discord_message, ticks,
                   trading_data, network_data, metrics, tmpfiles, inflight, fetch,
                   tick_due, tick_result, message_posted, ok_ticks, post_obs>>

\* main.py:157-160: send_discord_update(data); the POST takes d, and to a
\* webhook that never responds it ends with the timeout of its session
SendDiscordUpdate ==
    /\ pc = "notify"
    /\ data # None
    /\ should_send_discord_message(now, last_discord_message, discord_interval_hours)
    /\ CallReturns("discord", POST_TIMEOUT, unresponsive)
    /\ \E outcome \in PostOutcomes, d \in CallDurations :
          \E r \in {send_discord_update(data, discord_interval_hours,
                                        last_discord_message, outcome, now, now + d)} :
             /\ r.posted \/ d = 0
             /\ unresponsive = "discord" <=> outcome.kind = "timeout"
             /\ mocked # None => outcome = [kind |-> "response", status |-> 204] /\ d = 0
             /\ now' = now + d
             /\ last_discord_message' = r.last
             /\ tick_due' = TRUE
             /\ tick_result' = r.result
             /\ message_posted' = r.message
             /\ events' = Append(events, IF r.posted THEN "posted" ELSE "format_error")
             /\ IF r.posted
                THEN /\ last_post' = now
                     /\ last_post_result' = r.result
                ELSE UNCHANGED post_obs
             /\ pc' = IF r.exc = NoExc THEN "sleep"
                      ELSE IF run_except(r.exc) THEN "stopped" ELSE "crashed"
    /\ DropSnapshot
    /\ UNCHANGED <<fetch_failed_before, config, ticks, trading_data, network_data,
                   metrics, tmpfiles, inflight, fetch, ok_ticks>>

\* main.py:163: asyncio.sleep(update_interval)
Sleep ==
    /\ pc = "sleep"
    /\ now' = now + update_interval
    /\ pc' = "run"
    /\ events' = <<>>
    /\ tick_due' = FALSE
    /\ tick_result' = "none"
    /\ message_posted' = None
    /\ UNCHANGED <<prev_snapshot, fetch_failed_before, config, last_discord_message,
                   ticks, trading_data, network_data, data, metrics, tmpfiles,
                   inflight, collect_result, fetch, trading_source, node_response,
                   unresponsive, ok_ticks, post_obs>>

Next ==
    \/ RunCollect
    \/ GetTradingData
    \/ GetNetworkData
    \/ CollectReturn
    \/ NotifySkip
    \/ SendDiscordUpdate
    \/ Sleep

Spec == Init /\ [][Next]_vars

\* the event loop resumes run() as soon as the call it awaits has come back
\* (asyncio runs a coroutine that is ready; nothing else is scheduled that
\* could starve it)
LiveSpec == Spec /\ WF_vars(Next)

\* the runs against mocked sources
MockSpec == MockInit /\ [][Next]_vars

\* ------------------------------------------------------------------------
\* Properties
\* ------------------------------------------------------------------------
\* the node-domain fields of the Snapshot
NodeFields(snapshot) ==
    << snapshot.network.block_height, snapshot.network.current_epoch,
       snapshot.staking.active_validators, snapshot.staking.total_staked_um,
       snapshot.staking.total_staked_usd, snapshot.staking.total_voting_power,
       snapshot.tvl.staking_usd >>

\* C1: collect_all_data() never raises: whatever the node status fetch and
\* the analytics fetch do, the call returns a Snapshot and no exception
\* leaves it (so the loop is never ended by one either).
C1_CollectNeverRaises ==
    /\ collect_result # "raised"
    /\ pc \notin {"stopped", "crashed"}
    /\ collect_result = "returned" => data # None /\ DOMAIN data # {}

\* a cycle in which the status request timed out and the configured
\* analytics database refused every connection has returned its Snapshot
C1_Witness ==
    /\ collect_result = "returned"
    /\ data # None
    /\ NodeError = "TimeoutError"
    /\ StrTruthy(indexer_endpoint)
    /\ trading_source = "fallback"

\* C2: in every Snapshot, data_sources.indexer.healthy is true exactly when
\* the trading data of the cycle is real analytics data, and false whenever
\* it is the static fallback dataset (also when the configured endpoint
\* failed in that cycle).
C2_IndexerHealthyIffRealData ==
    data # None => (data.data_sources.indexer.healthy <=> trading_source = "indexer")

\* C3: whenever the node status fetch raises or times out, the Snapshot has
\* data_sources.penumbra_node.healthy = false and its node-domain numeric
\* fields are 0.
C3_NodeFailureFlagged ==
    (data # None /\ NodeError \in {"ClientError", "TimeoutError"}) =>
        /\ data.data_sources.penumbra_node.healthy = FALSE
        /\ \A i \in 1..Len(NodeFields(data)) : NodeFields(data)[i] = 0

\* the height the status document of this tick carries, for the documents
\* of StatusDocuments that are complete
ReportedHeight ==
    LET h == node_response.body.result.sync_info.latest_block_height
    IN IF h = <<"1", "0", "0", "0">> THEN 1000
       ELSE IF h = <<"0", "7">> THEN 7
       ELSE NULL

\* C4: when the analytics source is not configured or its fetch failed, and
\* the node status fetch succeeded with height h, the Snapshot has
\* block_height = h, the trading fields of the static fallback dataset
\* (5 pairs, volumes summing to 6,270.0) and tvl.dex_usd = 25 times that sum.
C4_FallbackValues ==
    (data # None /\ trading_source = "fallback" /\ NodeError = NoExc) =>
        /\ data.network.block_height = ReportedHeight
        /\ data.trading.active_pairs_count = 5
        /\ Len(data.trading.top_pairs) = 5
        /\ [i \in 1..5 |-> data.trading.top_pairs[i].volume_usd]
              = <<41428, 10400, 10134, 384, 354>>
        /\ [i \in 1..5 |-> data.trading.top_pairs[i].name]
              = <<"UM/USDC", "T414E72/UM", "UM/T414E72", "ATOM/UM", "ATOM/USDC">>
        /\ data.trading.total_volume_24h_usd = 62700
        /\ data.tvl.dex_usd = 25 * SumVolumeUsd(data.trading.top_pairs)
        /\ data.tvl.dex_usd = 1567500

\* the configured analytics database failed, the node reported height 1000
C4_Witness ==
    /\ data # None
    /\ StrTruthy(indexer_endpoint)
    /\ trading_source = "fallback"
    /\ NodeError = NoExc
    /\ data.network.block_height = 1000
    /\ data.tvl.dex_usd = 1567500

\* the notification interval in seconds
IntervalSeconds == discord_interval_hours * SECONDS_PER_HOUR

\* this step is a call of send_discord_update
Dispatching == pc = "notify" /\ tick_due'

\* C5: when the last-sent time is at least the interval in the past, the
\* tick with a successful collection dispatches exactly one notification and
\* sets the last-sent time to now; no tick less than the interval after a
\* dispatch sends another one.
C5_DispatchOnceAndReset ==
    [][Dispatching =>
          /\ tick_result' \in {"delivered", "rejected", "transport_error"}
          /\ last_discord_message' = now'
          /\ last_post # NULL => now - last_post >= IntervalSeconds]_vars

\* C6: a notification attempt that failed (non-204 status or transport
\* error) is not retried: the next attempt is made no sooner than a full
\* notification interval after the failed one.
C6_FailedAttemptNotRetried ==
    [][(Dispatching /\ tick_result' # "format_error"
            /\ last_post_result \in {"rejected", "transport_error"})
          => now - last_post >= IntervalSeconds]_vars

\* C7: whatever the outcome of a notification attempt, the tick that made it
\* goes on to sleep the update interval, and the loop then is back at the
\* start of the next collection; the loop is never ended.
C7_NotificationNeverStopsLoop ==
    [][/\ Dispatching => pc' = "sleep"
       /\ pc = "sleep" => pc' = "run" /\ now' = now + update_interval
       /\ pc' \notin {"stopped", "crashed"}]_vars

\* the collection of the next tick has started after a tick whose POST
\* failed with a transport error
C7_Witness ==
    /\ pc = "trading"
    /\ ticks >= 2
    /\ last_post_result = "transport_error"
    /\ last_post < now

\* C8: for every configured notification interval, the first tick whose
\* collection succeeds dispatches a notification.
C8_FirstTickNotifies ==
    (pc = "sleep" /\ ok_ticks = 1 /\ Did("collected")) => tick_due

\* C9: at most one collection cycle is in flight: a tick starts only when
\* the previous cycle has finished its collection, its metrics update and
\* its conditional notification, and a collection is in flight only between
\* the start of a tick and the return of collect_all_data.
C9_OneCycleInFlight ==
    /\ inflight \in {0, 1}
    /\ pc = "run" => inflight = 0 /\ events = <<>>
    /\ inflight = 1 <=> pc \in {"trading", "network", "build"}
    /\ pc \in {"notify", "sleep"} => Did("collect_started")

\* the second tick starts late, after a slow first cycle, and is the only
\* collection in flight
C9_Witness ==
    /\ pc = "trading"
    /\ ticks = 2
    /\ inflight = 1
    /\ now > update_interval

C11_EveryCycleCompletes == (inflight = 1) ~> (pc = "run")

\* the sslmodes of a connection with a CA certificate, strictest first
SslModes == <<"verify-full", "verify-ca", "require">>

\* the call of this tick wrote the certificate file and went on to connect
ConnectedWithCert ==
    /\ fetch # None
    /\ fetch.created # NULL
    /\ fetch.path \notin {"not_configured", "cert_failed"}

\* C12: with a CA certificate the modes are attempted in the order
\* verify-full, verify-ca, require: a mode is tried only after every stricter
\* one was refused in this call, the first accepted mode is the one used and
\* the last one attempted, and the connection fails only when all three were
\* refused.
C12_ModesInStrictnessOrder ==
    ConnectedWithCert =>
        LET n == Len(fetch.modes)
        IN /\ n \in 1..3
           /\ fetch.modes = SubSeq(SslModes, 1, n)
           /\ \A i \in 1..(n - 1) : fetch.modes[i] \notin fetch.accepts
           /\ fetch.path = "connect_failed" <=>
                 \A i \in 1..3 : SslModes[i] \notin fetch.accepts
           /\ fetch.path # "connect_failed" => fetch.modes[n] \in fetch.accepts

\* the server refused verify-full and accepted verify-ca: two attempts
C12_Witness ==
    /\ ConnectedWithCert
    /\ fetch.modes = <<"verify-full", "verify-ca">>
    /\ fetch.accepts = {"verify-ca", "require", "default"}
    /\ fetch.path = "success"

\* C13: in every cycle the live fetch is attempted exactly when the
\* configured endpoint is non-empty, whatever happened in earlier cycles, and
\* the cycle has the static fallback dataset exactly when the endpoint is
\* empty or the live fetch of this same cycle failed: a failed fetch does not
\* turn later cycles to the fallback dataset.
C13_LiveIffConfigured ==
    fetch # None =>
        /\ fetch.path # "not_configured" <=> StrTruthy(indexer_endpoint)
        /\ trading_data = get_fallback_trading_data <=>
              (~StrTruthy(indexer_endpoint) \/ fetch.path \in FailedPaths)
        /\ trading_source = "fallback" <=> trading_data = get_fallback_trading_data

\* the live fetch of an earlier tick failed, the one of this tick was
\* attempted and returned the data of the database
C13_Witness ==
    /\ fetch # None
    /\ ticks >= 2
    /\ fetch_failed_before
    /\ fetch.path = "success"
    /\ trading_data # get_fallback_trading_data
    /\ trading_data.current_epoch = 42

\* the Snapshot fields whose value comes from the analytics source, as the
\* Snapshot has them
AnalyticsFields(snapshot) ==
    [active_pairs_count |-> snapshot.trading.active_pairs_count,
     top_pairs |-> snapshot.trading.top_pairs,
     total_volume_24h |-> snapshot.trading.total_volume_24h_usd,
     lqt_total_participants |-> snapshot.lqt.total_participants,
     lqt_active_24h |-> snapshot.lqt.active_participants_24h,
     lqt_volume_24h |-> snapshot.lqt.volume_24h_usd,
     dex_tvl |-> snapshot.tvl.dex_usd,
     current_epoch |-> snapshot.network.current_epoch,
     active_validators |-> snapshot.staking.active_validators,
     total_voting_power |-> snapshot.staking.total_voting_power]

\* collect_all_data returns its Snapshot in this step, after a live fetch
\* that succeeded and a node status fetch that failed
ReturnsAfterNodeFailure ==
    /\ pc = "build"
    /\ pc' = "notify"
    /\ trading_source = "indexer"
    /\ NodeError # NoExc

\* C14: when the node status fetch fails and the analytics fetch of the same
\* cycle succeeded, every Snapshot field obtained from the analytics source
\* (trading, lqt, tvl.dex_usd, network.current_epoch, staking.
\* active_validators, staking.total_voting_power) carries the analytics
\* value, and only the block height has its default 0.
C14_NodeFailureKeepsAnalytics ==
    [][ReturnsAfterNodeFailure =>
          /\ data'.network.block_height = 0
          /\ \A f \in DOMAIN AnalyticsFields(data') :
                AnalyticsFields(data')[f] = trading_data[f]]_vars

\* the status document of this tick has a latest_block_height that int()
\* accepts
HeightIsValid ==
    /\ node_response # None
    /\ node_response.kind = "document"
    /\ "result" \in DOMAIN node_response.body
    /\ ParseInt(node_response.body.result.sync_info.latest_block_height) # NULL

\* what get_indexer_trading_data returns for DbMissingColumn if only the
\* figure read from the missing column (liquidity) takes its default
TradingDataWithoutLiquidity == [IndexerResult(DbLive) EXCEPT !.dex_tvl = 0]

\* C15: when a source responds and one field of the response is missing or
\* malformed, only the Snapshot field derived from it takes its default: a
\* status document with a valid latest_block_height and no
\* latest_block_time still gives the Snapshot its block height, and a result
\* row that lacks one column still gives the figures of the other columns
\* and rows.
C15_PartialDataFieldByField ==
    /\ (data # None /\ HeightIsValid) =>
            data.network.block_height = ReportedHeight
    /\ (fetch # None /\ fetch.path = "row_failed") =>
            trading_data = TradingDataWithoutLiquidity

\* C16: in every Snapshot, in live mode, in fallback mode and after any
\* source failure, tvl.total_usd = tvl.dex_usd + tvl.staking_usd, with no
\* other term.
C16_TotalIsDexPlusStaking ==
    data # None => data.tvl.total_usd = data.tvl.dex_usd + data.tvl.staking_usd

\* a Snapshot of live data with staked UM and a non-zero DEX TVL
C16_Witness ==
    /\ data # None
    /\ trading_source = "indexer"
    /\ data.staking.total_staked_um = 104
    /\ data.tvl.dex_usd = 1500
    /\ data.tvl.total_usd = 1500

\* C17: the transaction fields of every Snapshot satisfy, for its 24-hour
\* total T, per_second = round(T/86400, 3), per_minute =
\* round(per_second*60, 1) with the published (rounded) per_second, and
\* rate_per_hour = round(T/24, 1).  (per_second is held in thousandths, the
\* other two in tenths.)
C17_TransactionRates ==
    data # None =>
        LET T == data.transactions.total_24h
            per_second == data.transactions.per_second
        IN /\ T >= 0
           /\ per_second = RoundHalfEven(T * 1000, 86400)
           /\ data.transactions.per_minute = RoundHalfEven(per_second * 60 * 10, 1000)
           /\ data.transactions.rate_per_hour = RoundHalfEven(T * 10, 24)

\* the Snapshot of the total the code has: 253 in 24 hours is 0.003 per
\* second, 0.2 per minute and 10.5 per hour
C17_Witness ==
    /\ data # None
    /\ data.transactions.total_24h = 253
    /\ data.transactions.per_second = 3
    /\ data.transactions.per_minute = 2
    /\ data.transactions.rate_per_hour = 105

\* the schema of the Snapshot: the fields of each of its sections
SnapshotFields ==
    [addresses |-> {"active_daily", "active_weekly", "exchange_addresses_daily",
                    "exchange_addresses_weekly"},
     assets |-> {"total_value_usd", "trading_pairs_count", "unique_types_count"},
     bot_health |-> {"errors_last_24h", "last_update", "status", "uptime_hours"},
     data_sources |-> {"google_analytics", "indexer", "penumbra_node"},
     lqt |-> {"active_participants_24h", "rewards_distributed_usd", "total_participants",
              "total_volume_usd", "volume_24h_usd"},
     metadata |-> {"api_version", "data_freshness_seconds", "source", "timestamp"},
     network |-> {"avg_block_time_seconds", "block_height", "current_epoch",
                  "network_uptime_percentage"},
     prax_wallet |-> {"active_users_daily", "active_users_monthly", "downloads_daily",
                      "downloads_total", "downloads_weekly"},
     privacy |-> {"mvas_count_24h", "mvas_percentage", "mvas_volume_24h_usd",
                  "privacy_adoption_rate"},
     staking |-> {"active_validators", "staking_percentage", "total_staked_um",
                  "total_staked_usd", "total_voting_power"},
     trading |-> {"active_pairs_count", "top_pairs", "total_volume_24h_usd"},
     transactions |-> {"per_minute", "per_second", "rate_per_hour", "total_24h"},
     tvl |-> {"dex_usd", "source", "staking_usd", "total_usd"}]

\* the fields that hold a string, a flag, a list or a nested section; the
\* other fields hold a number (or None)
NonNumericFields ==
    [s \in DOMAIN SnapshotFields |->
        IF s = "bot_health" THEN {"status"}
        ELSE IF s = "data_sources" THEN SnapshotFields[s]
        ELSE IF s = "metadata" THEN {"api_version", "source"}
        ELSE IF s = "trading" THEN {"top_pairs"}
        ELSE IF s = "tvl" THEN {"source"}
        ELSE {}]

\* every section and every field of the schema is present
HasAllFields(snapshot) ==
    /\ DOMAIN snapshot = DOMAIN SnapshotFields
    /\ \A s \in DOMAIN SnapshotFields : DOMAIN snapshot[s] = SnapshotFields[s]
    /\ \A i \in 1..Len(snapshot.trading.top_pairs) :
          DOMAIN snapshot.trading.top_pairs[i] = {"name", "volume", "volume_usd"}

\* the numeric fields that are None
NullFields(snapshot) ==
    { <<s, f>> \in UNION { {s} \X (SnapshotFields[s] \ NonNumericFields[s]) :
                             s \in DOMAIN SnapshotFields } :
        snapshot[s][f] = NULL }

\* C18: every Snapshot has every field of the schema, with a value that is
\* not None, whatever sources failed or returned empty results.
C18_EveryFieldDefined ==
    data # None =>
        /\ HasAllFields(data)
        /\ NullFields(data) = {}
        /\ \A i \in 1..Len(data.trading.top_pairs) :
              data.trading.top_pairs[i].volume_usd # NULL

\* C19: two consecutive collect_all_data() calls that get identical source
\* responses return Snapshots that are equal but for their freshness
\* timestamps (the same fields, with values computed the same way): the
\* first call leaves nothing in the collector that changes the second.
C19_SameResponsesSameSnapshot ==
    (mocked # None /\ data # None /\ prev_snapshot # None) =>
        /\ StripTimestamps(data) = prev_snapshot
        /\ tmpfiles = {}

\* the second call against a database whose first query fails, with a CA
\* certificate configured, under a later timestamp than the first call
C19_Witness ==
    /\ mocked # None
    /\ mocked.io.failing_query = 1
    /\ StrTruthy(indexer_ca_cert)
    /\ ticks = 2
    /\ data # None
    /\ prev_snapshot # None
    /\ data.metadata.timestamp > 0
    /\ data.trading.active_pairs_count = 5
    /\ prev_snapshot.trading.active_pairs_count = 5

\* C20: within a tick the order is collect, metrics update, conditional
\* notification: a notification is dispatched only in a tick whose
\* collection returned a Snapshot, after the metrics were updated from it,
\* and its message is formatted from that Snapshot; a tick whose collection
\* failed sends nothing and leaves the last-sent time unchanged.
C20_CollectMetricsNotify ==
    [][/\ Dispatching =>
            /\ data # None
            /\ collect_result = "returned"
            /\ events = << "collect_started", "trading", "network", "collected",
                           "metrics" >>
            /\ metrics = update_metrics(data)
            /\ message_posted' =
                  format_discord_message(data, discord_interval_hours, now).message
       /\ (pc = "notify" /\ collect_result # "returned") =>
            /\ ~tick_due'
            /\ last_discord_message' = last_discord_message]_vars

\* a tick has collected, updated the metrics and then posted the message
\* with the block height of its Snapshot
C20_Witness ==
    /\ pc = "sleep"
    /\ events = << "collect_started", "trading", "network", "collected", "metrics",
                   "posted" >>
    /\ message_posted # None
    /\ message_posted.block_height = "1,000"
    /\ metrics # None

====
